---- MODULE Spec2Model ----
(***************************************************************************)
(* A model of filterfasta (MPI version): the partitioner that carves the   *)
(* query file into page-aligned, record-aligned byte ranges (setOffs,      *)
(* setOffsQueryFile), the chunked mapped scanner (partQueryFile,           *)
(* initQueryMap, adjustMapBegin, adjustMapEnd), the record selector and    *)
(* writer (extractQueries, getAnnot, getSequence, parseAnnot) and the      *)
(* report of hit IDs not found (writeHitsNotFound).                        *)
(*                                                                         *)
(* Bytes are one-character strings; a file, a map or a buffer is a         *)
(* sequence of bytes.  C offsets are 0-based: byte k of the file is        *)
(* file[k + 1].                                                            *)
(***************************************************************************)
EXTENDS Integers, Sequences, FiniteSets, TLC

VARIABLES
  file,      \* contents of the query file (args.qf)
  args,      \* args_t: the options of the run
  hitList,   \* hits.hitList: the distinct hit IDs (empty in filter mode)
  worldSz,   \* number of MPI processes the run was started with
  procCnt,   \* mpi.procCnt as computed by rank 0
  fileOffs,  \* iomap.fileOffs: flat array, 3 slots per rank
  pc,        \* position of the coordinator: "setOffs", "planned", "failed",
             \* "scan", "finished"
  wk,        \* per rank: the locals of partQueryFile, iomap and query
  notFound,  \* contents of <output>.notFound: a sequence of hit IDs
  outFile,   \* contents of the output file args->of at the end of the run
  cmd,       \* parseCmdline: the options not yet read, the file names of
             \* args and ret
  load       \* loadSearchIDs / loadBlastTable: the file being read and the
             \* locals of the loader

vars == <<file, args, hitList, worldSz, procCnt, fileOffs, pc, wk, notFound,
          outFile, cmd, load>>

inputs == <<file, args, hitList, worldSz, cmd, load>>

(***************************************************************************)
(* Bytes                                                                   *)
(***************************************************************************)
GT == ">"
NL == "\n"
BAR == "|"
SOH == "^A"
UNINIT == "?"

ERROR == -1

(***************************************************************************)
(* Bounds of the model                                                     *)
(***************************************************************************)
PageSize == 4
MaxProcs == 3
MaxRecs == 3
MaxPartRecs == 5
MaxHits == 2
MaxLookupProcs == 2

(***************************************************************************)
(* Input files: concatenations of records                                  *)
(***************************************************************************)
Rec(header, body) == <<GT>> \o header \o <<NL>> \o body

RECURSIVE Flatten(_)
Flatten(rs) == IF rs = <<>> THEN <<>> ELSE Head(rs) \o Flatten(Tail(rs))

SeqsUpTo(S, n) == UNION {[1..k -> S] : k \in 1..n}

\* Pieces of the files for the partitioner: records of different lengths,
\* one with a '>' inside its header line, and lines without a header, one
\* of them shorter than a page
CatalogPart ==
  { Rec(<<"a">>, <<"A", NL>>),
    Rec(<<"b", BAR, "x">>, <<"A", "C", NL, "G", NL>>),
    Rec(<<"c", GT, "d">>, <<"A", "A", NL>>),
    <<"A", "C", "G", "T", NL>>,
    <<"A", NL>> }

FilesPart == {Flatten(rs) : rs \in SeqsUpTo(CatalogPart, MaxPartRecs)}

(***************************************************************************)
(* Partitioner: setOffsQueryFile                                           *)
(***************************************************************************)
CeilDiv(a, b) == (a + b - 1) \div b

\* partSz = seqChunks * floor(ceil(fsize / procCnt) / seqChunks)
PartSz(fsize, cnt) == PageSize * (CeilDiv(fsize, cnt) \div PageSize)

\* fread(buffer, 1, seqChunks, fd) after fseeko(fd, readOffs): a short read
\* leaves the tail of the buffer as it was
Fread(buffer, readOffs) ==
  [c \in 0..(PageSize - 1) |->
     IF readOffs + c < Len(file) THEN file[readOffs + c + 1] ELSE buffer[c]]

\* prevOffs without the skew of partition i-1
PrevOffsSkipSkew(offs, i) == offs[(i-1)*3] + offs[(i-1)*3+2]

\* prevOffs: the byte after the end of partition i-1
PrevOffs(offs, i) == offs[(i-1)*3] + offs[(i-1)*3+1] + offs[(i-1)*3+2]

\* chunkOffs rounded up instead of down
ChunkOffsCeil(prevOffs) == CeilDiv(prevOffs, PageSize)

\* chunkOffs = floor(prevOffs / seqChunks)
ChunkOffs(prevOffs) == prevOffs \div PageSize

\* for(c = seqChunks - 1; c >= 0; c--): offset counts the bytes looked at
RECURSIVE ScanChunk(_, _, _)
ScanChunk(buffer, c, offset) ==
  IF c < 0 THEN [found |-> FALSE, offset |-> offset]
  ELSE IF buffer[c] = GT THEN [found |-> TRUE, offset |-> offset + 1]
  ELSE ScanChunk(buffer, c - 1, offset + 1)

\* a length of 0 taken as a valid length
ZeroLenAccepted(len) == 0

\* if( fileOffs[i*3+2] == 0 ) return 2
ZeroLenResult(len) == IF len = 0 THEN 2 ELSE 0

\* while( foundSeqBeg == 0 ): chunk j is read at pageOff + partSz - seqChunks*j;
\* below: a chunk was read at an offset before pageOff
RECURSIVE FindSeqBeg(_, _, _, _, _, _)
FindSeqBeg(buffer, pageOff, skew, partSz, j, offset) ==
  LET readOffs == pageOff + partSz - (PageSize * j) IN
  IF readOffs < 0
  THEN [ret |-> 2, len |-> 0, set |-> FALSE, buffer |-> buffer,
        below |-> j > 1 /\ readOffs + PageSize < pageOff]
  ELSE LET buf2 == Fread(buffer, readOffs)
           s == ScanChunk(buf2, PageSize - 1, offset)
       IN IF s.found
          THEN LET len == partSz - s.offset - skew IN
               [ret |-> ZeroLenResult(len), len |-> len, set |-> TRUE,
                buffer |-> buf2, below |-> readOffs < pageOff]
          ELSE FindSeqBeg(buf2, pageOff, skew, partSz, j + 1, s.offset)

\* for(i = 0; i < procCnt; i++)
RECURSIVE SetOffsLoop(_, _, _, _, _)
SetOffsLoop(offs, buffer, fsize, cnt, i) ==
  IF i >= cnt THEN [ret |-> 0, offs |-> offs, below |-> FALSE]
  ELSE
    LET prevOffs == PrevOffs(offs, i)
        pageOff == IF i = 0 THEN 0 ELSE PageSize * ChunkOffs(prevOffs)
        skew == IF i = 0 THEN 0 ELSE prevOffs - pageOff
        offs1 == [offs EXCEPT ![i*3] = pageOff, ![i*3+1] = skew]
    IN IF i < cnt - 1
       THEN LET r == FindSeqBeg(buffer, pageOff, skew, PartSz(fsize, cnt), 1, 0)
                offs2 == IF r.set THEN [offs1 EXCEPT ![i*3+2] = r.len] ELSE offs1
            IN IF r.ret = 2 THEN [ret |-> 2, offs |-> offs2, below |-> r.below]
               ELSE LET rest == SetOffsLoop(offs2, r.buffer, fsize, cnt, i + 1) IN
                    [rest EXCEPT !.below = r.below \/ rest.below]
       ELSE SetOffsLoop([offs1 EXCEPT ![i*3+2] = fsize - (pageOff + skew)],
                        buffer, fsize, cnt, i + 1)

\* setOffsQueryFile with a hard error for a partition size of 0
setOffsQueryFileZeroFails(offs, fsize, cnt) ==
  IF PartSz(fsize, cnt) = 0 THEN [ret |-> 1, offs |-> offs, below |-> FALSE]
  ELSE SetOffsLoop(offs, [c \in 0..(PageSize - 1) |-> UNINIT], fsize, cnt, 0)

setOffsQueryFile(offs, fsize, cnt) ==
  SetOffsLoop(offs, [c \in 0..(PageSize - 1) |-> UNINIT], fsize, cnt, 0)

(***************************************************************************)
(* Coordinator, pre-scan: setOffs on rank 0                                *)
(***************************************************************************)
ZeroOffs == [k \in 0..(worldSz * 3 - 1) |-> 0]

\* procCnt == 1: the plan is the whole file
SetOffsSingle ==
  /\ pc = "setOffs"
  /\ procCnt = 1
  /\ fileOffs' = [fileOffs EXCEPT ![0] = 0, ![1] = 0, ![2] = Len(file)]
  /\ pc' = IF worldSz = 1 THEN "scan" ELSE "planned"
  /\ UNCHANGED <<inputs, procCnt, wk, notFound, outFile>>

\* int parts = 4 in the block of main that follows setOffs on rank 0
DebugParts == 4

\* the while(1) loop of computePartitionOffsets: the body of
\* setOffsQueryFile, with err = 2 for a partition size of 0, on offsets that
\* are not cleared between the turns; lparts-- on err == 2
RECURSIVE ComputeLoop(_, _)
ComputeLoop(offs, lparts) ==
  IF lparts = 1
  THEN [parts |-> 1, offs |-> [offs EXCEPT ![0] = 0, ![1] = 0, ![2] = Len(file)]]
  ELSE LET r == IF PartSz(Len(file), lparts) = 0 THEN [ret |-> 2, offs |-> offs]
                ELSE setOffsQueryFile(offs, Len(file), lparts)
       IN IF r.ret = 2 THEN ComputeLoop(r.offs, lparts - 1)
          ELSE [parts |-> lparts, offs |-> r.offs]

\* computePartitionOffsets(&offs, &parts, fd, sz, '>') for sz >= 1: the
\* offsets are allocated, not initialized
computePartitionOffsets(parts) ==
  ComputeLoop([k \in 0..(parts * 3 - 1) |-> UNINIT], parts)

\* the turn that ends with err == 2 without mpi->procCnt--
SetOffsShrinkKeepsCount ==
  /\ pc = "setOffs"
  /\ procCnt > 1
  /\ LET r == setOffsQueryFile(ZeroOffs, Len(file), procCnt) IN
       /\ r.ret = 2
       /\ fileOffs' = r.offs
  /\ UNCHANGED <<inputs, procCnt, pc, wk, notFound, outFile>>

\* one turn of the while(1) loop of rank 0 that ends with err == 2
SetOffsShrink ==
  /\ pc = "setOffs"
  /\ procCnt > 1
  /\ LET r == setOffsQueryFile(ZeroOffs, Len(file), procCnt) IN
       /\ r.ret = 2
       /\ fileOffs' = r.offs
       /\ procCnt' = procCnt - 1
  /\ UNCHANGED <<inputs, pc, wk, notFound, outFile>>

\* one turn of the while(1) loop of rank 0 that ends with a plan or an error
SetOffsPlan ==
  /\ pc = "setOffs"
  /\ procCnt > 1
  /\ LET r == setOffsQueryFile(ZeroOffs, Len(file), procCnt) IN
       /\ r.ret # 2
       /\ fileOffs' = r.offs
       /\ procCnt' = IF r.ret # 0 THEN ERROR ELSE procCnt
       /\ pc' = IF r.ret # 0 THEN "failed" ELSE "planned"
  /\ UNCHANGED <<inputs, wk, notFound, outFile>>

(***************************************************************************)
(* Scanner and selector: the state of one rank                             *)
(***************************************************************************)
INT_MAX == 2147483647
INT_MIN1 == -2147483647
\* LLONG_MAX, the "unlimited" default of seqCnt and bytesLimit, is modelled
\* by the largest 32-bit value
LLONG_MAX == 2147483647
MapPages == 3
\* BCAST_LIMIT, the chunk size of combineOutputFiles, scaled down likewise
BcastPages == 2
BCAST_LIMIT == BcastPages * PageSize
\* IMAP_LIMIT, the map chunk limit, scaled down to a few pages
IMAP_LIMIT == MapPages * PageSize

htotal == Len(hitList)

\* hits->pipeMode != 0 || hits->searchMode != 0
Lookup == args.pipeMode # 0 \/ args.searchMode # 0

Ranks == 0..(worldSz - 1)

\* the memory the query pointers of s point into: the carry buffer or the map
Mem(s) == IF s.region = "buf" THEN s.buf ELSE s.map

\* p == iomap->fMap || p == query->fbuf
AtEnd(s, p) == IF s.region = "buf" THEN p = s.fbuf ELSE p = s.fMap

\* move forward from p to the first byte ch; ERROR at the end of the region
RECURSIVE FindByte(_, _, _)
FindByte(s, p, ch) ==
  IF AtEnd(s, p) THEN ERROR
  ELSE IF Mem(s)[p + 1] = ch THEN p
  ELSE FindByte(s, p + 1, ch)

getAnnot(s) ==
  LET a == FindByte(s, s.fsq, GT) IN
  IF a = ERROR THEN [err |-> ERROR, s |-> s]
  ELSE LET f == FindByte(s, a + 1, NL) IN
       IF f = ERROR THEN [err |-> ERROR, s |-> [s EXCEPT !.iaq = a]]
       ELSE [err |-> 0, s |-> [s EXCEPT !.iaq = a, !.faq = f]]

\* the while loop of getSequence: [fsq, seqSz]
RECURSIVE SeqLoop(_, _, _)
SeqLoop(s, p, seqSz) ==
  IF AtEnd(s, p) THEN [fsq |-> p, seqSz |-> seqSz]
  ELSE IF Mem(s)[p + 1] = NL THEN SeqLoop(s, p + 1, seqSz)
  ELSE IF Mem(s)[p + 1] = GT THEN [fsq |-> p - 1, seqSz |-> seqSz]
  ELSE SeqLoop(s, p + 1, seqSz + 1)

\* getSequence without its test of seqSz == 0
getSequenceAcceptsEmpty(s) ==
  LET r == SeqLoop(s, s.faq + 1, 0) IN
  [err |-> 0, seqSz |-> r.seqSz, s |-> [s EXCEPT !.isq = s.faq + 1, !.fsq = r.fsq]]

getSequence(s) ==
  LET r == SeqLoop(s, s.faq + 1, 0) IN
  IF r.seqSz = 0
  THEN [err |-> ERROR, seqSz |-> 0, s |-> [s EXCEPT !.isq = s.faq, !.fsq = s.faq]]
  ELSE [err |-> 0, seqSz |-> r.seqSz, s |-> [s EXCEPT !.isq = s.faq + 1, !.fsq = r.fsq]]

\* the while loop of parseAnnot: the new annotSz
RECURSIVE parseAnnot(_, _, _, _)
parseAnnot(annotCnt, annotSz, s, p) ==
  IF p = s.faq THEN annotSz - 1
  ELSE IF Mem(s)[p + 1] = BAR \/ Mem(s)[p + 1] = SOH
       THEN IF annotCnt - 1 = 0 THEN p - s.iaq
            ELSE parseAnnot(annotCnt - 1, annotSz, s, p + 1)
       ELSE parseAnnot(annotCnt, annotSz, s, p + 1)

Abs(n) == IF n < 0 THEN 0 - n ELSE n

\* strncmp(hit, ptr, strlen(hit)) == 0
StrnEq(s, hit, ptr) ==
  \A k \in 1..Len(hit) : ptr + k <= Len(Mem(s)) /\ Mem(s)[ptr + k] = hit[k]

\* while( paq != query->faq ): the SOH whose following bytes match hit, or ERROR
RECURSIVE AltLoop(_, _, _)
AltLoop(s, paq, hit) ==
  IF paq = s.faq THEN ERROR
  ELSE IF Mem(s)[paq + 2] = SOH /\ StrnEq(s, hit, paq + 2) THEN paq + 1
  ELSE AltLoop(s, paq + 1, hit)

\* *paq = '>' in the map or in the carry buffer
Poke(s, p, ch) ==
  IF s.region = "buf" THEN [s EXCEPT !.buf[p + 1] = ch]
  ELSE [s EXCEPT !.map[p + 1] = ch]

\* for(i = 0; i < hits->htotal && seqSelect == 0; i++); hit: the index of
\* the hit ID that selected the record; alt: it matched an alternative ID
RECURSIVE HitsLoop(_, _)
HitsLoop(s, i) ==
  IF i >= htotal THEN [sel |-> FALSE, hit |-> ERROR, alt |-> FALSE, s |-> s]
  ELSE LET id == hitList[i + 1] IN
       IF StrnEq(s, id, s.iaq + 1)
       THEN [sel |-> TRUE, hit |-> i, alt |-> FALSE,
             s |-> [s EXCEPT !.charVect[i] = 1]]
       ELSE LET paq == AltLoop(s, s.iaq, id) IN
            IF paq # ERROR
            THEN [sel |-> TRUE, hit |-> i, alt |-> TRUE,
                  s |-> [(IF args.annotCnt # 0
                          THEN [Poke(s, paq, GT) EXCEPT !.iaq = paq]
                          ELSE s) EXCEPT !.charVect[i] = 1]]
            ELSE HitsLoop(s, i + 1)

\* for(i = 0; (i < seqLenBuf) && (seqLen[i] == seqSz); i++) { select; break; }
SelectLen(seqSz) == 0 < Len(args.seqLen) /\ args.seqLen[1] = seqSz

\* for(i = 0; (i < rseqLenBuf) && (rseqLen[i*2] <= seqSz)
\*            && (rseqLen[i*2+1] >= seqSz); i++) { select; break; }
SelectRange(seqSz) ==
  0 < Len(args.rseqLen) /\ args.rseqLen[1][1] <= seqSz /\ args.rseqLen[1][2] >= seqSz

\* the normal (filter) branch of the selection
SelectFilter(seqSz) ==
  IF Len(args.seqLen) = 0 /\ Len(args.rseqLen) = 0 THEN TRUE
  ELSE SelectLen(seqSz) \/ SelectRange(seqSz)

\* the bytes fwrite(ptr, 1, n, ofd) reads; a byte outside the memory of the
\* region is whatever the outcome ub of the undefined read gives
ReadBytes(s, ptr, n, ub) ==
  [k \in 1..n |-> IF ptr + k <= Len(Mem(s)) THEN Mem(s)[ptr + k] ELSE ub]

Overrun(s, ptr, n) == n > 0 /\ ptr + n > Len(Mem(s))

\* lerr = fwrite(...); *bytesWritten = *bytesWritten + lerr
Fwrite(s, bytes) ==
  [s EXCEPT !.out = s.out \o bytes, !.bytesWritten = s.bytesWritten + Len(bytes)]

\* the limit test without the bytes already written
OverLimitRecordOnly(s, wCnt) == wCnt > args.bytesLimit

\* (wCnt + *bytesWritten) > args->bytesLimit
OverLimit(s, wCnt) == (wCnt + s.bytesWritten) > args.bytesLimit

\* absolute file offset of pointer p of the region s scans
AbsOff(s, p) == IF s.region = "buf" THEN s.bufOff + p ELSE s.mapOff + p

\* the output step of extractQueries for a selected record: what is written,
\* from where, or done
Emit(s, annotSz, rawSeqSz) ==
  IF args.annotCnt = INT_MAX \/ args.annotCnt = INT_MIN1
  THEN LET wCnt == IF args.annotCnt = INT_MAX THEN annotSz + rawSeqSz ELSE annotSz IN
       [wCnt |-> wCnt, parts |-> <<[ptr |-> s.iaq, n |-> wCnt]>>]
  ELSE IF args.annotCnt # 0
  THEN LET sz == parseAnnot(Abs(args.annotCnt), annotSz, s, s.iaq) IN
       IF args.annotCnt > 0
       THEN [wCnt |-> sz + rawSeqSz + 1,
             parts |-> <<[ptr |-> s.iaq, n |-> sz], [ptr |-> ERROR, n |-> 1],
                         [ptr |-> s.isq, n |-> rawSeqSz]>>]
       ELSE [wCnt |-> sz,
             parts |-> <<[ptr |-> s.iaq + 1, n |-> sz - 1], [ptr |-> ERROR, n |-> 1]>>]
  ELSE [wCnt |-> rawSeqSz, parts |-> <<[ptr |-> s.isq, n |-> rawSeqSz]>>]

\* the bytes of the fwrite calls of one record; ptr = ERROR stands for "\n"
RECURSIVE PartsBytes(_, _, _)
PartsBytes(s, parts, ub) ==
  IF parts = <<>> THEN <<>>
  ELSE LET h == Head(parts) IN
       (IF h.ptr = ERROR THEN <<NL>> ELSE ReadBytes(s, h.ptr, h.n, ub))
       \o PartsBytes(s, Tail(parts), ub)

PartsOverrun(s, parts) ==
  \E k \in 1..Len(parts) : parts[k].ptr # ERROR /\ Overrun(s, parts[k].ptr, parts[k].n)

\* the stretches of the file the fwrite calls of one record read: offset of
\* the first byte and number of bytes
PartsSource(s, parts) ==
  LET fromMem == SelectSeq(parts, LAMBDA h : h.ptr # ERROR) IN
  [k \in DOMAIN fromMem |-> [from |-> AbsOff(s, fromMem[k].ptr), n |-> fromMem[k].n]]

\* the quota test without its lookup half
QuotaMetSeqCntOnly(s) == procCnt = 1 /\ s.xCnt = args.seqCnt

\* the quota test at the top of the while(1) loop of extractQueries: only
\* with one process; the count of written records has reached -c or, in
\* lookup mode, the number of hit IDs
QuotaMet(s) ==
  procCnt = 1 /\ (s.xCnt = args.seqCnt \/ (Lookup /\ s.xCnt = htotal))

\* history of the records extractQueries has parsed on a rank: where the
\* record starts in the file, its seqSz, whether it was selected (and by
\* which hit ID, through an alternative ID or not), in which region of
\* which map, with which result of getSequence, whether it was written,
\* with how many and which bytes, read from where
Logged(s, entry) == [s EXCEPT !.log = Append(s.log, entry)]

\* one turn of the while(1) loop of extractQueries on the region of s;
\* brk: the loop was left (the function returns 0)
ExtractOne(s, ub) ==
  IF QuotaMet(s)
  THEN [brk |-> TRUE, s |-> [s EXCEPT !.done = TRUE]]
  ELSE
  LET a == getAnnot(s) IN
  IF a.err # 0 THEN [brk |-> TRUE, s |-> a.s]
  ELSE
  LET annotSz == a.s.faq - a.s.iaq + 1
      g == getSequence(a.s)
  IN
  IF g.err # 0
  THEN [brk |-> TRUE,
        s |-> Logged(g.s, [start |-> AbsOff(g.s, g.s.iaq), seqSz |-> 0,
                           sel |-> FALSE, hit |-> ERROR, alt |-> FALSE,
                           reg |-> g.s.region, nmap |-> g.s.nmap, err |-> g.err,
                           wr |-> FALSE, n |-> 0, bytes |-> <<>>, src |-> <<>>])]
  ELSE
  LET rawSeqSz == g.s.fsq - g.s.isq + 1
      h == IF Lookup THEN HitsLoop(g.s, 0)
           ELSE [sel |-> SelectFilter(g.seqSz), hit |-> ERROR, alt |-> FALSE,
                 s |-> g.s]
      entry == [start |-> AbsOff(g.s, g.s.iaq), seqSz |-> g.seqSz,
                sel |-> h.sel, hit |-> h.hit, alt |-> h.alt, reg |-> g.s.region,
                nmap |-> g.s.nmap, err |-> 0,
                wr |-> FALSE, n |-> 0, bytes |-> <<>>, src |-> <<>>]
  IN
  IF ~h.sel THEN [brk |-> FALSE, s |-> Logged(h.s, entry)]
  ELSE
  LET e == Emit(h.s, annotSz, rawSeqSz) IN
  IF OverLimit(h.s, e.wCnt)
  THEN [brk |-> TRUE, s |-> [Logged(h.s, entry) EXCEPT !.done = TRUE]]
  ELSE IF PartsOverrun(h.s, e.parts) /\ ub = "crash"
  THEN [brk |-> TRUE, s |-> [Logged(h.s, entry) EXCEPT !.pc = "crashed"]]
  ELSE [brk |-> FALSE,
        s |-> [Logged(Fwrite(h.s, PartsBytes(h.s, e.parts, ub)),
                      [entry EXCEPT !.wr = TRUE, !.n = e.wCnt,
                                    !.bytes = PartsBytes(h.s, e.parts, ub),
                                    !.src = PartsSource(h.s, e.parts)])
                 EXCEPT !.xCnt = h.s.xCnt + 1]]

(***************************************************************************)
(* Scanner: partQueryFile, one action per stretch of code of a rank        *)
(***************************************************************************)
\* msz = IMAP_LIMIT; if( (msz < psz) || (msz % psz != 0) ) msz = psz * 1024
MapSize ==
  IF IMAP_LIMIT < PageSize \/ IMAP_LIMIT % PageSize # 0 THEN PageSize * 1024
  ELSE IMAP_LIMIT

\* the state of a rank when main() enters setOffs: structures cleared
InitWorker ==
  [pc |-> "start", qfsz |-> Len(file), nmap |-> 0, nmaps |-> 0, msz |-> 0,
   mrem |-> 0, done |-> FALSE, err |-> 0, bytesWritten |-> 0, xCnt |-> 0,
   out |-> <<>>, map |-> <<>>, mapOff |-> 0, iMap |-> 0, fMap |-> 0,
   shift |-> 0, buf |-> <<>>, buflen |-> 0, fbuf |-> 0, bufOff |-> 0,
   region |-> "map", iaq |-> 0, faq |-> 0, isq |-> 0, fsq |-> 0,
   charVect |-> [i \in 0..(htotal - 1) |-> 0], log |-> <<>>, ret |-> 0]

\* the rest of setOffs without the exit of the ranks beyond the adjusted count
DistributeNoExit ==
  /\ pc = "planned"
  /\ pc' = "scan"
  /\ wk' = [r \in Ranks |-> [wk[r] EXCEPT !.qfsz = fileOffs[r*3+2]]]
  /\ UNCHANGED <<inputs, procCnt, fileOffs, notFound, outFile>>

\* rest of setOffs on every rank: the plan is broadcast, a rank beyond the
\* adjusted count exits, the others take the length of their slot
Distribute ==
  /\ pc = "planned"
  /\ pc' = "scan"
  /\ wk' = [r \in Ranks |->
              IF r >= procCnt THEN [wk[r] EXCEPT !.pc = "exited"]
              ELSE [wk[r] EXCEPT !.qfsz = fileOffs[r*3+2]]]
  /\ UNCHANGED <<inputs, procCnt, fileOffs, notFound, outFile>>

\* partQueryFile up to the for loop
StartScan(r) ==
  /\ pc = "scan"
  /\ wk[r].pc = "start"
  /\ wk' = [wk EXCEPT ![r] = [wk[r] EXCEPT !.pc = "map", !.msz = MapSize,
                                           !.nmaps = CeilDiv(wk[r].qfsz, MapSize)]]
  /\ UNCHANGED <<inputs, procCnt, fileOffs, pc, notFound, outFile>>

\* initQueryMap(msz, offset, iomap, mpi) of rank r
initQueryMap(s, r, msz, offset) ==
  LET off == offset + fileOffs[r*3]
      len == msz + fileOffs[r*3+1]
  IN [s EXCEPT !.map = SubSeq(file, off + 1, off + len), !.mapOff = off,
               !.fMap = len - 1, !.iMap = fileOffs[r*3+1]]

\* forward from iMap, stopping before fMap: offset of the first '>' or ERROR
RECURSIVE FirstGT(_, _)
FirstGT(s, c) ==
  IF c = s.fMap THEN ERROR
  ELSE IF s.map[c + 1] = GT THEN c - s.iMap
  ELSE FirstGT(s, c + 1)

adjustMapBegin(s) ==
  LET offset == FirstGT(s, s.iMap) IN
  IF offset = ERROR THEN [err |-> ERROR, s |-> s]
  ELSE IF offset > 0
  THEN [err |-> 0,
        s |-> [s EXCEPT !.shift = offset,
                        !.buf = s.buf \o SubSeq(s.map, s.iMap + 1, s.iMap + offset),
                        !.buflen = s.buflen + offset,
                        !.fbuf = s.buflen + offset - 1,
                        !.iMap = s.iMap + offset]]
  ELSE [err |-> 0, s |-> [s EXCEPT !.shift = offset]]

\* backward from fMap, stopping before iMap: pointer of the last '>' or ERROR
RECURSIVE LastGT(_, _)
LastGT(s, c) ==
  IF c = s.iMap THEN ERROR
  ELSE IF s.map[c + 1] = GT THEN c
  ELSE LastGT(s, c - 1)

\* adjustMapEnd without the adjustment of iomap->fMap
adjustMapEndNoTrim(s) ==
  LET c == LastGT(s, s.fMap) IN
  IF c = ERROR THEN [err |-> ERROR, s |-> s]
  ELSE LET i == s.fMap - c IN
       [err |-> 0,
        s |-> [s EXCEPT !.buflen = i + 1,
                        !.buf = SubSeq(s.map, c + 1, s.fMap + 1),
                        !.fbuf = i, !.bufOff = s.mapOff + c]]

adjustMapEnd(s) ==
  LET c == LastGT(s, s.fMap) IN
  IF c = ERROR THEN [err |-> ERROR, s |-> s]
  ELSE LET i == s.fMap - c IN
       [err |-> 0,
        s |-> [s EXCEPT !.fMap = s.fMap - (i + 1), !.buflen = i + 1,
                        !.buf = SubSeq(s.map, c + 1, s.fMap + 1),
                        !.fbuf = i, !.bufOff = s.mapOff + c]]

\* an error inside the for loop: munmap, free(query.buf), break
Break(s) == [s EXCEPT !.err = ERROR, !.pc = "post", !.map = <<>>, !.buf = <<>>]

\* the pointers are set to the map; a map that is not the last is trimmed;
\* then extractQueries runs on the map
EnterWindow(s) ==
  LET s1 == [s EXCEPT !.region = "map", !.iaq = s.iMap, !.faq = s.iMap,
                      !.isq = s.iMap, !.fsq = s.iMap]
  IN IF s.mrem > 0
     THEN LET e == adjustMapEnd(s1) IN
          IF e.err # 0 THEN Break(e.s) ELSE [e.s EXCEPT !.pc = "winExtract"]
     ELSE [s1 EXCEPT !.pc = "winExtract"]

\* top of the for loop: the next map is created; for a map after the first
\* the carry buffer is completed and extractQueries is about to run on it
MapWindow(r) ==
  /\ pc = "scan"
  /\ wk[r].pc = "map"
  /\ wk[r].nmap < wk[r].nmaps /\ ~wk[r].done
  /\ LET s == wk[r]
         mrem == s.nmaps - (s.nmap + 1)
         offset == s.nmap * s.msz
         msz == IF mrem = 0 THEN s.qfsz - offset ELSE s.msz
         m == initQueryMap([s EXCEPT !.mrem = mrem, !.msz = msz], r, msz, offset)
     IN wk' = [wk EXCEPT ![r] =
                 IF s.nmap > 0
                 THEN LET b == adjustMapBegin(m) IN
                      IF b.err # 0 THEN Break(b.s)
                      ELSE [b.s EXCEPT !.region = "buf", !.iaq = 0, !.faq = 0,
                                       !.isq = 0, !.fsq = 0, !.pc = "bufExtract"]
                 ELSE EnterWindow(m)]
  /\ UNCHANGED <<inputs, procCnt, fileOffs, pc, notFound, outFile>>

\* the for loop ends: all maps done, or done is set
LoopExit(r) ==
  /\ pc = "scan"
  /\ wk[r].pc = "map"
  /\ ~(wk[r].nmap < wk[r].nmaps /\ ~wk[r].done)
  /\ wk' = [wk EXCEPT ![r].pc = "post"]
  /\ UNCHANGED <<inputs, procCnt, fileOffs, pc, notFound, outFile>>

\* the outcomes of a read outside the mapped or allocated memory
UBOutcomes == {"crash", "NUL", UNINIT}

\* one record of the carry buffer; when extractQueries returns the buffer is
\* freed and the scan enters the map
ExtractBuf(r) ==
  /\ pc = "scan"
  /\ wk[r].pc = "bufExtract"
  /\ \E ub \in UBOutcomes :
       LET x == ExtractOne(wk[r], ub) IN
       wk' = [wk EXCEPT ![r] =
                IF x.s.pc = "crashed" THEN x.s
                ELSE IF x.brk
                THEN EnterWindow([x.s EXCEPT !.buf = <<>>, !.buflen = 0, !.fbuf = 0])
                ELSE x.s]
  /\ UNCHANGED <<inputs, procCnt, fileOffs, pc, notFound, outFile>>

\* one record of the map; when extractQueries returns the map is released
\* and the for loop steps to the next map
ExtractWin(r) ==
  /\ pc = "scan"
  /\ wk[r].pc = "winExtract"
  /\ \E ub \in UBOutcomes :
       LET x == ExtractOne(wk[r], ub) IN
       wk' = [wk EXCEPT ![r] =
                IF x.s.pc = "crashed" THEN x.s
                ELSE IF x.brk
                THEN [x.s EXCEPT !.map = <<>>, !.nmap = x.s.nmap + 1, !.pc = "map"]
                ELSE x.s]
  /\ UNCHANGED <<inputs, procCnt, fileOffs, pc, notFound, outFile>>

(***************************************************************************)
(* Post-scan: writeHitsNotFound, the result of combineOutputFiles, exit    *)
(***************************************************************************)
RECURSIVE SumVect(_, _)
\* MPI_Reduce(..., MPI_SUM, 0, ...): entry i summed over ranks 0..(n-1)
SumVect(i, n) == IF n = 0 THEN 0 ELSE wk[n - 1].charVect[i] + SumVect(i, n - 1)

RECURSIVE NotFoundFrom(_)
\* the IDs whose summed characteristic vector is zero, in list order
NotFoundFrom(i) ==
  IF i >= htotal THEN <<>>
  ELSE (IF SumVect(i, procCnt) = 0 THEN <<hitList[i + 1]>> ELSE <<>>)
       \o NotFoundFrom(i + 1)

RECURSIVE TotalBytesWritten(_)
TotalBytesWritten(n) ==
  IF n = 0 THEN 0 ELSE wk[n - 1].bytesWritten + TotalBytesWritten(n - 1)

Min(a, b) == IF a < b THEN a ELSE b

\* while( curr_off < dataLen ): the per-rank file is read from its start and
\* passed on in chunks of at most BCAST_LIMIT bytes
RECURSIVE SendChunks(_, _, _)
SendChunks(out, dataLen, curr_off) ==
  IF curr_off >= dataLen THEN <<>>
  ELSE LET curr_sz == Min(BCAST_LIMIT, dataLen - curr_off) IN
       SubSeq(out, curr_off + 1, curr_off + curr_sz)
       \o SendChunks(out, dataLen, curr_off + curr_sz)

\* the first chunk only
ContributionFirstChunk(r) ==
  SubSeq(wk[r].out, 1, Min(BCAST_LIMIT, wk[r].bytesWritten))

\* what rank 0 writes to args->of for rank r: its own file for r = 0, the
\* chunks received from r otherwise
Contribution(r) == SendChunks(wk[r].out, wk[r].bytesWritten, 0)

\* for(i = 0; i < procCnt; i++): rank 0 first, then the ranks in order
RECURSIVE Combined(_)
Combined(n) == IF n = 0 THEN <<>> ELSE Combined(n - 1) \o Contribution(n - 1)

\* the file args->of after combineOutputFiles: with one process it is the
\* file the rank wrote; with more it is created by rank 0
OutputFile ==
  IF procCnt = 1 THEN wk[0].out
  ELSE IF args.combine /\ TotalBytesWritten(procCnt) > 0 THEN Combined(procCnt)
  ELSE <<>>

\* the value combineOutputFiles returns on every rank
combineOutputFiles ==
  IF procCnt = 1 THEN 0
  ELSE IF TotalBytesWritten(procCnt) = 0 THEN ERROR
  ELSE 0

\* the value partQueryFile returns on a rank whose scan ended with err
ScanResult(err) ==
  LET e1 == IF Lookup THEN 0 ELSE err IN
  IF args.combine THEN combineOutputFiles ELSE e1

\* the collectives after the scan, once every rank of the communicator is
\* there, and the exit of main
PostScan ==
  /\ pc = "scan"
  /\ \A r \in Ranks : r < procCnt => wk[r].pc = "post"
  /\ notFound' = IF Lookup THEN NotFoundFrom(0) ELSE notFound
  /\ outFile' = OutputFile
  /\ wk' = [r \in Ranks |->
              IF r < procCnt
              THEN [wk[r] EXCEPT !.pc = "end",
                                 !.ret = IF ScanResult(wk[r].err) # 0 THEN ERROR ELSE 0]
              ELSE wk[r]]
  /\ pc' = "finished"
  /\ UNCHANGED <<inputs, procCnt, fileOffs>>

(***************************************************************************)
(* Specifications                                                          *)
(***************************************************************************)
\* the defaults parseCmdline sets; combine: built with BCAST_OUTFILES
DefaultArgs ==
  [seqCnt |-> LLONG_MAX, bytesLimit |-> LLONG_MAX, seqLen |-> <<>>,
   rseqLen |-> <<>>, annotCnt |-> INT_MAX, pipeMode |-> 0, searchMode |-> 0,
   combine |-> TRUE]

\* Records for the scanner: one-line and two-line bodies, '|' fields, an ID
\* that is a prefix of another, an alternative ID after SOH
CatalogScan ==
  { Rec(<<"a">>, <<"A", NL>>),
    Rec(<<"b", BAR, "x">>, <<"A", "C", NL>>),
    Rec(<<"a", "b">>, <<"A", NL, "C", NL>>),
    Rec(<<"c", SOH, "b", BAR, "y">>, <<"A", "C", "G", NL>>) }

FilesScan == {Flatten(rs) : rs \in SeqsUpTo(CatalogScan, MaxRecs)}

AnnotModes == {INT_MAX, INT_MIN1, 0, 1, 0 - 1, 2}

\* filter mode: each option varied against the defaults, and against -a 1
ArgsFilter ==
  {[DefaultArgs EXCEPT !.annotCnt = a] : a \in AnnotModes}
  \cup {[DefaultArgs EXCEPT !.annotCnt = a, !.seqCnt = c] :
          a \in {INT_MAX, 0 - 1}, c \in {0, 1, 2}}
  \cup {[DefaultArgs EXCEPT !.annotCnt = a, !.bytesLimit = b] :
          a \in AnnotModes, b \in {6, 14}}
  \cup {[DefaultArgs EXCEPT !.seqLen = l, !.rseqLen = g] :
          l \in {<<>>, <<1>>, <<3, 1>>},
          g \in {<<>>, <<<<2, 3>>>>, <<<<3, 4>>, <<1, 2>>>>}}

\* a run whose command line was parsed and whose hit list is loaded
InitRun ==
  /\ cmd = <<>>
  /\ load = <<>>
  /\ procCnt = worldSz
  /\ fileOffs = [k \in 0..(worldSz * 3 - 1) |-> 0]
  /\ pc = "setOffs"
  /\ wk = [r \in Ranks |-> InitWorker]
  /\ notFound = <<>>
  /\ outFile = <<>>

InitPart ==
  /\ file \in FilesPart
  /\ worldSz \in 1..MaxProcs
  /\ args = DefaultArgs
  /\ hitList = <<>>
  /\ InitRun

NextPart == SetOffsSingle \/ SetOffsShrink \/ SetOffsPlan

\* rank 0 goes on with its loop: a turn that can be taken is taken
FairPart == WF_vars(SetOffsSingle) /\ WF_vars(SetOffsShrink) /\ WF_vars(SetOffsPlan)

\* the partitioner alone
SpecPart == InitPart /\ [][NextPart]_vars

NextScan ==
  \/ \E r \in Ranks : StartScan(r)
  \/ \E r \in Ranks : MapWindow(r)
  \/ \E r \in Ranks : LoopExit(r)
  \/ \E r \in Ranks : ExtractBuf(r)
  \/ \E r \in Ranks : ExtractWin(r)
  \/ PostScan

InitFilter ==
  /\ file \in FilesScan
  /\ worldSz = 1
  /\ args \in ArgsFilter
  /\ hitList = <<>>
  /\ InitRun

NextFilter == SetOffsSingle \/ NextScan

\* a serial run in filter mode
SpecFilter == InitFilter /\ [][NextFilter]_vars

\* IDs of a hit list: IDs of the records, a prefix of one of them, one absent
HitIDs == {<<"a">>, <<"b">>, <<"c">>, <<"a", "b">>, <<"z">>}

\* the hit list holds distinct IDs in the order they were first read
HitLists ==
  {h \in SeqsUpTo(HitIDs, MaxHits) : \A i, j \in DOMAIN h : i # j => h[i] # h[j]}

\* lookup mode (-s): annotations all, first N fields, none; with and without a
\* byte limit
ArgsLookup ==
  {[DefaultArgs EXCEPT !.searchMode = 1, !.annotCnt = a, !.bytesLimit = b] :
     a \in {INT_MAX, 1, 2, 0}, b \in {LLONG_MAX, 9}}

InitLookup ==
  /\ file \in FilesScan
  /\ worldSz \in 1..MaxLookupProcs
  /\ args \in ArgsLookup
  /\ hitList \in HitLists
  /\ InitRun

NextLookup == NextPart \/ Distribute \/ NextScan

\* a run in lookup mode on one or more ranks
SpecLookup == InitLookup /\ [][NextLookup]_vars

MaxCombineProcs == 3

\* filter mode on several ranks: all annotations or the first field, with
\* and without a byte limit
ArgsCombine ==
  {[DefaultArgs EXCEPT !.annotCnt = a, !.bytesLimit = b] :
     a \in {INT_MAX, 1}, b \in {LLONG_MAX, 9}}

InitCombine ==
  /\ file \in FilesScan
  /\ worldSz \in 2..MaxCombineProcs
  /\ args \in ArgsCombine
  /\ hitList = <<>>
  /\ InitRun

\* a run in filter mode on several ranks whose outputs are combined
SpecCombine == InitCombine /\ [][NextLookup]_vars

\* Records and ends of a file for the edges of the scanner: a record with
\* an empty body; a last record without final newline, with a one-byte body
\* without newline, with a header line and nothing else, with a header that
\* has no newline
CatalogEdge ==
  { Rec(<<"a">>, <<"A", NL>>),
    Rec(<<"b", BAR, "x">>, <<"A", "C", NL>>),
    Rec(<<"e">>, <<>>) }

CatalogTail ==
  { <<>>, <<GT, "d", NL, "A", "C">>, <<GT, "d", NL, "A">>, <<GT, "d", NL>>,
    <<GT, "d">> }

FilesEdge ==
  {Flatten(rs) \o tl : rs \in SeqsUpTo(CatalogEdge, MaxRecs) \cup {<<>>},
                       tl \in CatalogTail} \ {<<>>}

InitEdge ==
  /\ file \in FilesEdge
  /\ worldSz = 1
  /\ args \in {[DefaultArgs EXCEPT !.annotCnt = a] : a \in {INT_MAX, 1}}
  /\ hitList = <<>>
  /\ InitRun

\* a serial run in filter mode on files with irregular records
SpecEdge == InitEdge /\ [][NextFilter]_vars

\* fopen of the output file of rank r fails: partQueryFile returns ERROR
\* before its loop and its collectives, main frees the communicator and
\* returns ERROR
OpenFails(r) ==
  /\ pc = "scan"
  /\ wk[r].pc = "start"
  /\ wk' = [wk EXCEPT ![r] = [wk[r] EXCEPT !.pc = "end", !.ret = ERROR]]
  /\ UNCHANGED <<inputs, procCnt, fileOffs, pc, notFound, outFile>>

NextFault == NextLookup \/ \E r \in Ranks : OpenFails(r)

\* a run in filter mode on several ranks in which the output file of a rank
\* may fail to open
SpecFault == InitCombine /\ [][NextFault]_vars

MaxFairRecs == 3

InitPartFair ==
  /\ file \in {Flatten(rs) : rs \in SeqsUpTo(CatalogPart, MaxFairRecs)}
  /\ worldSz \in 1..MaxProcs
  /\ args = DefaultArgs
  /\ hitList = <<>>
  /\ InitRun

\* setOffs on rank 0, run to its end
SpecPartFair == InitPartFair /\ [][NextPart]_vars /\ FairPart

(***************************************************************************)
(* Properties of the partition plan (SpecPart)                             *)
(***************************************************************************)
\* the byte range of entry i of the plan
RangeStart(i) == fileOffs[i*3] + fileOffs[i*3+1]
RangeLen(i) == fileOffs[i*3+2]

RECURSIVE SumLen(_)
SumLen(n) == IF n = 0 THEN 0 ELSE RangeLen(n - 1) + SumLen(n - 1)

\* setOffsQueryFile has returned 0 to setOffs: fileOffs is the returned plan
PlanReturned == pc \in {"planned", "scan"}

\* C1: a returned plan has N' entries, 1 <= N' <= N; entry 0 starts at byte
\* 0; every later entry starts exactly where the one before it ends (page
\* offset + skew + length), the ranges are not empty, so that they neither
\* leave a gap nor overlap; the lengths sum to the file size.
C1_PlanCoversFile ==
  PlanReturned =>
    /\ procCnt \in 1..worldSz
    /\ RangeStart(0) = 0
    /\ \A i \in 0..(procCnt - 1) : RangeLen(i) > 0
    /\ \A i \in 1..(procCnt - 1) :
         fileOffs[i*3] + fileOffs[i*3+1]
           = fileOffs[(i-1)*3] + fileOffs[(i-1)*3+1] + fileOffs[(i-1)*3+2]
    /\ SumLen(procCnt) = Len(file)

\* a plan of three entries whose middle entry starts inside a page
C1_Witness == pc = "planned" /\ procCnt >= 3 /\ fileOffs[4] > 0

\* C2: in a returned plan every page offset is a multiple of the page size
\* and every skew is at least 0 and less than the page size.
C2_PageAligned ==
  PlanReturned =>
    \A i \in 0..(procCnt - 1) :
      /\ fileOffs[i*3] % PageSize = 0
      /\ fileOffs[i*3] >= 0
      /\ fileOffs[i*3+1] >= 0
      /\ fileOffs[i*3+1] < PageSize

\* a plan with an entry that starts inside a page
C2_Witness ==
  pc = "planned" /\ \E i \in 1..(procCnt - 1) : fileOffs[i*3+1] > 0

\* C3: in a returned plan every entry after the first starts at a '>' that
\* begins a record, that is, a '>' preceded by a newline.
C3_StartsAtRecord ==
  PlanReturned =>
    \A i \in 1..(procCnt - 1) :
      /\ file[RangeStart(i) + 1] = GT
      /\ file[RangeStart(i)] = NL

(***************************************************************************)
(* The input as the statements read it: records, logical length, what the *)
(* annotation policy prescribes for a record                               *)
(***************************************************************************)
\* offsets of the record starts of f: a '>' at the beginning of a line
RecStarts(f) == {k \in 0..(Len(f) - 1) : f[k + 1] = GT /\ (k = 0 \/ f[k] = NL)}

Least(S) == CHOOSE x \in S : \A y \in S : x <= y

\* the elements of a set of numbers in increasing order
RECURSIVE Ascending(_)
Ascending(S) ==
  IF S = {} THEN <<>> ELSE <<Least(S)>> \o Ascending(S \ {Least(S)})

\* the record of f that starts at offset k: up to the next record start
RecordAt(f, k) ==
  LET later == {j \in RecStarts(f) : j > k} IN
  SubSeq(f, k + 1, IF later = {} THEN Len(f) ELSE Least(later))

\* index of the newline that ends the header line of rec
HeaderEnd(rec) == Least({k \in 1..Len(rec) : rec[k] = NL})

HeaderLine(rec) == SubSeq(rec, 1, HeaderEnd(rec))

Body(rec) == SubSeq(rec, HeaderEnd(rec) + 1, Len(rec))

\* bytes of the body minus its newlines
LogicalLen(rec) == Cardinality({k \in DOMAIN Body(rec) : Body(rec)[k] # NL})

\* the header, '>' included, up to the end of its n-th field; the whole
\* header when it has fewer than n delimiters
HeaderPrefix(rec, n) ==
  LET delims == {k \in 1..(HeaderEnd(rec) - 1) : rec[k] \in {BAR, SOH}} IN
  IF Cardinality(delims) < n THEN SubSeq(rec, 1, HeaderEnd(rec) - 1)
  ELSE LET d == CHOOSE x \in delims : Cardinality({y \in delims : y <= x}) = n
       IN SubSeq(rec, 1, d - 1)

\* what is written for an accepted record under annotation mode a
Policy(rec, a) ==
  IF a = INT_MAX THEN rec
  ELSE IF a = INT_MIN1 THEN HeaderLine(rec)
  ELSE IF a = 0 THEN Body(rec)
  ELSE IF a > 0 THEN HeaderPrefix(rec, a) \o <<NL>> \o Body(rec)
  ELSE Tail(HeaderPrefix(rec, 0 - a)) \o <<NL>>

\* the entries of the history of a rank that were written
Emitted(s) == SelectSeq(s.log, LAMBDA e : e.wr)

Starts(entries) == [k \in DOMAIN entries |-> entries[k].start]

\* the prescribed bytes of the records of entries, one after the other
RECURSIVE PolicyOut(_)
PolicyOut(entries) ==
  IF entries = <<>> THEN <<>>
  ELSE Policy(RecordAt(file, Head(entries).start), args.annotCnt)
       \o PolicyOut(Tail(entries))

\* the filter predicate: no length and no range configured, or the logical
\* length equals any configured length or lies in any configured range
Accepts(rec) ==
  \/ Len(args.seqLen) = 0 /\ Len(args.rseqLen) = 0
  \/ \E k \in DOMAIN args.seqLen : LogicalLen(rec) = args.seqLen[k]
  \/ \E k \in DOMAIN args.rseqLen :
       args.rseqLen[k][1] <= LogicalLen(rec) /\ LogicalLen(rec) <= args.rseqLen[k][2]

FirstAccepted(Acc(_), c) ==
  LET acc == Ascending({k \in RecStarts(file) : Acc(RecordAt(file, k))})
  IN SubSeq(acc, 1, IF c < Len(acc) THEN c ELSE Len(acc))

\* the filter predicate when only the first configured length and the first
\* configured range count
AcceptsFirst(rec) ==
  \/ Len(args.seqLen) = 0 /\ Len(args.rseqLen) = 0
  \/ Len(args.seqLen) > 0 /\ LogicalLen(rec) = args.seqLen[1]
  \/ /\ Len(args.rseqLen) > 0
     /\ args.rseqLen[1][1] <= LogicalLen(rec)
     /\ LogicalLen(rec) <= args.rseqLen[1][2]

\* C5: in a run of one worker in filter mode with max_records = c and no
\* byte limit, never more than c records are written, and at the end the
\* records written are the first min(c, number of accepted records)
\* accepted records of the input, in order, however many windows it spans
\* -- whichever of the two readings of "accepted" is taken.
C5_FirstRecords ==
  (worldSz = 1 /\ ~Lookup /\ args.bytesLimit = LLONG_MAX) =>
    /\ wk[0].xCnt <= args.seqCnt
    /\ Len(Emitted(wk[0])) <= args.seqCnt
    /\ pc = "finished" =>
         /\ \/ Starts(Emitted(wk[0])) = FirstAccepted(Accepts, args.seqCnt)
            \/ Starts(Emitted(wk[0])) = FirstAccepted(AcceptsFirst, args.seqCnt)
         /\ wk[0].out = PolicyOut(Emitted(wk[0]))

C7_IdentityOutput ==
  (pc = "finished" /\ worldSz = 1 /\ args = DefaultArgs) => wk[0].out = file

\* C8: in filter mode with a length or a range configured, a parsed record
\* is selected if and only if its logical length equals any of the
\* configured lengths or lies in any of the configured ranges.
C8_AnyLengthOrRange ==
  (~Lookup /\ Len(args.seqLen) + Len(args.rseqLen) > 0) =>
    \A r \in Ranks : \A k \in DOMAIN wk[r].log :
      wk[r].log[k].sel <=> Accepts(RecordAt(file, wk[r].log[k].start))

(***************************************************************************)
(* Properties of lookup mode (SpecLookup)                                  *)
(***************************************************************************)
\* the header list of rec: the primary ID, from the byte after '>' up to
\* the next field delimiter or the end of the header, and every ID that
\* begins right after an SOH
HeaderIDs(rec) ==
  LET e == HeaderEnd(rec)
      IdFrom(k) ==
        LET stop == {j \in k..(e - 1) : rec[j] \in {BAR, SOH}} IN
        SubSeq(rec, k, IF stop = {} THEN e - 1 ELSE Least(stop) - 1)
  IN {IdFrom(2)} \cup {IdFrom(j + 1) : j \in {i \in 2..(e - 1) : rec[i] = SOH}}

HitSet == {hitList[j] : j \in DOMAIN hitList}

\* C9: in lookup mode a parsed record is selected if and only if some ID of
\* its header list is equal, byte for byte and over its whole length, to a
\* hit ID.
C9_ExactIDMatch ==
  Lookup =>
    \A r \in Ranks : \A k \in DOMAIN wk[r].log :
      wk[r].log[k].sel <=>
        HeaderIDs(RecordAt(file, wk[r].log[k].start)) \cap HitSet # {}

IsPrefix(h, id) == Len(h) <= Len(id) /\ SubSeq(id, 1, Len(h)) = h

\* the records the ranks of the run have written
EmittedRecords ==
  {RecordAt(file, e.start) :
     e \in UNION {{Emitted(wk[r])[k] : k \in DOMAIN Emitted(wk[r])} :
                    r \in 0..(procCnt - 1)}}

\* the hit IDs that equal a header ID of a written record
MatchedExactly ==
  {h \in HitSet : \E rec \in EmittedRecords : h \in HeaderIDs(rec)}

\* the hit IDs that are a leading part of a header ID of a written record
MatchedAsPrefix ==
  {h \in HitSet : \E rec \in EmittedRecords : \E id \in HeaderIDs(rec) : IsPrefix(h, id)}

\* C10: in lookup mode, after a run that every rank ended with success,
\* the IDs listed in <output>.notFound are the hit IDs minus the hit IDs
\* that matched a written record -- whether "matched" is read as equality
\* with a header ID or as the comparison over the length of the hit ID.
C10_NotFoundAccounting ==
  (Lookup /\ pc = "finished" /\ \A r \in 0..(procCnt - 1) : wk[r].ret = 0) =>
    LET listed == {notFound[k] : k \in DOMAIN notFound} IN
    \/ listed = HitSet \ MatchedExactly
    \/ listed = HitSet \ MatchedAsPrefix

\* the number of records of the file with a header ID that hit ID h matches
\* under the matching Match(h, id)
MatchingRecords(Match(_, _), h) ==
  Cardinality({k \in RecStarts(file) :
                 \E id \in HeaderIDs(RecordAt(file, k)) : Match(h, id)})

SameID(h, id) == h = id

\* C11: in lookup mode, when the scan has ended, the seen-count of every hit
\* ID, summed over the ranks, is the number of records of the source with a
\* primary or alternative header ID equal to it -- also when "equal" is
\* read as the comparison over the length of the hit ID.
C11_SeenCount ==
  (Lookup /\ pc = "finished") =>
    \/ \A i \in 0..(htotal - 1) :
         SumVect(i, procCnt) = MatchingRecords(SameID, hitList[i + 1])
    \/ \A i \in 0..(htotal - 1) :
         SumVect(i, procCnt) = MatchingRecords(IsPrefix, hitList[i + 1])

(***************************************************************************)
(* The scan of a range with one map that covers it                         *)
(***************************************************************************)
\* extractQueries on the region of s: the turns of its loop until it returns
RECURSIVE ExtractAll(_)
ExtractAll(s) ==
  LET x == ExtractOne(s, "NUL") IN IF x.brk THEN x.s ELSE ExtractAll(x.s)

\* partQueryFile of rank r when msz is not less than the size of the range:
\* nmaps = 1, the only map is the last one
OneWindow(r) ==
  LET s0 == [InitWorker EXCEPT !.qfsz = fileOffs[r*3+2], !.nmaps = 1,
                               !.msz = fileOffs[r*3+2], !.mrem = 0]
  IN ExtractAll(EnterWindow(initQueryMap(s0, r, s0.qfsz, 0)))

\* C12: the output of a finished run does not depend on the window size: it
\* is, bit for bit, the output of the run with one window that covers the
\* whole range, also when a record straddles a window boundary.
C12_WindowIndependent ==
  (pc = "finished" /\ worldSz = 1 /\ ~Lookup) => wk[0].out = OneWindow(0).out

\* the entries of the histories of all ranks that were written
WrittenEntries ==
  UNION {{Emitted(wk[r])[k] : k \in DOMAIN Emitted(wk[r])} : r \in 0..(procCnt - 1)}

\* rec as it reads when one of its alternative headers is taken as the
\* header: '>' followed by the bytes after one of the SOH separators
AltViews(rec) ==
  {<<GT>> \o SubSeq(rec, j + 1, Len(rec)) :
     j \in {k \in 1..(HeaderEnd(rec) - 1) : rec[k] = SOH}}

\* C13: for every accepted record the bytes written are exactly those of
\* the annotation policy (all: header line and body; none: body; first N
\* with body: header up to the N-th delimiter, a newline, the body; first N
\* without body: that prefix without '>', a newline; fewer than N
\* delimiters: the whole header without its newline), applied to the record
\* or to the record read from the alternative header that matched.
C13_PolicyBytes ==
  \A e \in WrittenEntries :
    \E v \in {RecordAt(file, e.start)} \cup AltViews(RecordAt(file, e.start)) :
      e.bytes = Policy(v, args.annotCnt)

\* the stretch [from, from + n) lies in [lo, hi)
Within(part, lo, hi) == lo <= part.from /\ part.from + part.n <= hi

\* C20: in lookup mode, for a record accepted through an alternative ID
\* after an SOH byte, every source byte written lies inside the record's
\* own byte range in every annotation mode; with all annotations the output
\* is the record's header line and body, and with a first-N mode the written
\* header never runs past the header's end into the body.
C20_AltWriteInRecord ==
  Lookup =>
    \A e \in {w \in WrittenEntries : w.alt} :
      LET rec == RecordAt(file, e.start) IN
      /\ \A k \in DOMAIN e.src : Within(e.src[k], e.start, e.start + Len(rec))
      /\ args.annotCnt = INT_MAX => e.bytes = rec
      /\ args.annotCnt \notin {0, INT_MAX} =>
           Within(e.src[1], e.start, e.start + HeaderEnd(rec) - 1)

\* C19: once the byte-limit test has rejected a selected record, the rank
\* writes no further record for the rest of its scan, also when the rejected
\* record was the one held in the carry buffer at a window boundary.
C19_NothingAfterLimit ==
  \A r \in 0..(procCnt - 1) :
    \A i \in DOMAIN wk[r].log : \A j \in DOMAIN wk[r].log :
      (i < j /\ wk[r].log[i].sel /\ ~wk[r].log[i].wr) => ~wk[r].log[j].wr

(***************************************************************************)
(* Command line: parseCmdline, one action per option read by getopt_long   *)
(* and one for the validation after the loop                               *)
(***************************************************************************)
MAXARG_CNT == 5
MaxOpts == 4
OUTPUT_FILE == "filter.out"

\* The options of a command line: o the option character; s its argument
\* if it is a file name; n, or lo and hi, the value strtoll returns if it is
\* numeric. The argument of -l has the form "n", "lo:hi", ":hi", "lo:" or
\* ":".
FileOpt(o, s) == [o |-> o, s |-> s, form |-> "", n |-> 0, lo |-> 0, hi |-> 0]
NumOpt(o, n) == [o |-> o, s |-> "", form |-> "n", n |-> n, lo |-> 0, hi |-> 0]
RangeOpt(form, lo, hi) ==
  [o |-> "l", s |-> "", form |-> form, n |-> 0, lo |-> lo, hi |-> hi]

Options ==
  { FileOpt("q", "in.fa"), FileOpt("o", "out"), FileOpt("o", "in.fa"),
    FileOpt("s", "ids"), FileOpt("t", "tab"),
    NumOpt("p", 1), NumOpt("p", 3), NumOpt("l", 5),
    RangeOpt("lo:hi", 1, 4), RangeOpt("lo:hi", 4, 1), RangeOpt("lo:", 4, 0),
    NumOpt("c", 2), NumOpt("a", 0 - 1), NumOpt("b", 0) }

\* the command lines of at most n options, no option given twice
RECURSIVE OptSeqs(_)
OptSeqs(n) ==
  IF n = 0 THEN {<<>>}
  ELSE LET shorter == OptSeqs(n - 1) IN
       shorter \cup {Append(s, x) : s \in {q \in shorter : Len(q) = n - 1},
                                   x \in Options}

Distinct(s) == \A i \in DOMAIN s : \A j \in DOMAIN s : s[i] = s[j] => i = j

CmdLines == {s \in OptSeqs(MaxOpts) : Distinct(s)}

\* memset(&args, 0, ...) in main, then the defaults parseCmdline sets
InitCmd(argv) ==
  [argv |-> argv, ret |-> 0, qf |-> "", of |-> OUTPUT_FILE, sf |-> "", btable |-> ""]

ConfigError(a, c) == [args |-> a, cmd |-> [c EXCEPT !.ret = ERROR]]

Contains(s, x) == \E i \in DOMAIN s : s[i] = x

\* case 'l', range format: start and end length of the range, or ERROR
RangeOf(v) ==
  IF v.form = ":" THEN <<0, LLONG_MAX>>
  ELSE IF v.form = ":hi"
  THEN (IF v.hi < 0 THEN <<ERROR, ERROR>> ELSE <<0, v.hi>>)
  ELSE IF v.form = "lo:"
  THEN (IF v.lo < 0 THEN <<ERROR, ERROR>> ELSE <<v.lo, LLONG_MAX>>)
  ELSE IF v.lo < 0 \/ v.hi < 1 THEN <<ERROR, ERROR>>
  ELSE <<v.lo, v.hi>>

\* case 'l'
LengthOpt(a, c, v) ==
  IF v.form # "n"
  THEN LET rg == RangeOf(v) IN
       IF rg[1] = ERROR THEN ConfigError(a, c)
       ELSE IF rg[2] <= rg[1] THEN ConfigError(a, c)
       ELSE IF Len(a.rseqLen) < MAXARG_CNT /\ ~Contains(a.rseqLen, rg)
       THEN [args |-> [a EXCEPT !.rseqLen = Append(a.rseqLen, rg)], cmd |-> c]
       ELSE [args |-> a, cmd |-> c]
  ELSE IF v.n < 0 THEN ConfigError(a, c)
  ELSE IF Len(a.seqLen) < MAXARG_CNT /\ ~Contains(a.seqLen, v.n)
  THEN [args |-> [a EXCEPT !.seqLen = Append(a.seqLen, v.n)], cmd |-> c]
  ELSE [args |-> a, cmd |-> c]

\* switch( opt ): the cases with an argument
ApplyOpt(a, c, opt) ==
  IF opt.o = "q" THEN [args |-> a, cmd |-> [c EXCEPT !.qf = opt.s]]
  ELSE IF opt.o = "o" THEN [args |-> a, cmd |-> [c EXCEPT !.of = opt.s]]
  ELSE IF opt.o = "s"
  THEN [args |-> [a EXCEPT !.searchMode = 1], cmd |-> [c EXCEPT !.sf = opt.s]]
  ELSE IF opt.o = "t" THEN [args |-> a, cmd |-> [c EXCEPT !.btable = opt.s]]
  ELSE IF opt.o = "p"
  THEN (IF opt.n < 0 \/ opt.n > 2 THEN ConfigError(a, c)
        ELSE [args |-> [a EXCEPT !.pipeMode = opt.n], cmd |-> c])
  ELSE IF opt.o = "c"
  THEN (IF opt.n < 0 THEN ConfigError(a, c)
        ELSE [args |-> [a EXCEPT !.seqCnt = opt.n], cmd |-> c])
  ELSE IF opt.o = "a"
  THEN (IF opt.n = INT_MIN1 - 1 THEN ConfigError(a, c)
        ELSE [args |-> [a EXCEPT !.annotCnt = opt.n], cmd |-> c])
  ELSE IF opt.o = "b"
  THEN (IF opt.n < 1 THEN ConfigError(a, c)
        ELSE [args |-> [a EXCEPT !.bytesLimit = opt.n], cmd |-> c])
  ELSE LengthOpt(a, c, opt)

\* the checks after the option loop: ret of parseCmdline
Validate(a, c) ==
  IF \/ c.ret # 0
     \/ a.pipeMode # 0 /\ a.searchMode # 0
     \/ c.qf = ""
     \/ c.qf # "" /\ c.qf = c.of
     \/ c.qf # "" /\ a.searchMode # 0 /\ c.qf = c.sf
     \/ a.pipeMode # 0 /\ c.btable = ""
     \/ a.pipeMode # 0 /\ c.btable # "" /\ (c.btable = c.qf \/ c.btable = c.of)
  THEN ERROR ELSE 0

\* one turn of while(1): getopt_long returns the next option
GetOpt ==
  /\ pc = "getopt"
  /\ cmd.argv # <<>>
  /\ LET x == ApplyOpt(args, [cmd EXCEPT !.argv = Tail(cmd.argv)], Head(cmd.argv)) IN
     /\ args' = x.args
     /\ cmd' = x.cmd
  /\ UNCHANGED <<file, hitList, worldSz, load, procCnt, fileOffs, pc, wk, notFound, outFile>>

\* getopt_long returns -1; validation; main leaves with CFGERROR if
\* parseCmdline failed and goes on to open the query file otherwise
EndOfOptions ==
  /\ pc = "getopt"
  /\ cmd.argv = <<>>
  /\ cmd' = [cmd EXCEPT !.ret = Validate(args, cmd)]
  /\ pc' = IF Validate(args, cmd) # 0 THEN "configError" ELSE "openQueryFile"
  /\ UNCHANGED <<file, args, hitList, worldSz, load, procCnt, fileOffs, wk, notFound, outFile>>

InitCmdline ==
  /\ cmd \in {InitCmd(argv) : argv \in CmdLines}
  /\ args = DefaultArgs
  /\ pc = "getopt"
  /\ file = <<>>
  /\ hitList = <<>>
  /\ worldSz = 1
  /\ load = <<>>
  /\ procCnt = 1
  /\ fileOffs = <<>>
  /\ wk = <<>>
  /\ notFound = <<>>
  /\ outFile = <<>>

NextCmdline == GetOpt \/ EndOfOptions

SpecCmdline == InitCmdline /\ [][NextCmdline]_vars

\* a length or a range of lengths is configured
FilterLength == Len(args.seqLen) > 0 \/ Len(args.rseqLen) > 0

\* a source of hit IDs is configured: an ID list, or a BLAST table with
\* pipeline mode
LookupSource ==
  args.searchMode # 0 \/ (args.pipeMode # 0 /\ cmd.btable # "")

\* C14: a command line that configures both a filter length and a lookup
\* source is rejected as a configuration error: the run never gets past
\* parseCmdline to the opening of the query file.
C14_ModesExclusive ==
  pc = "openQueryFile" => ~(FilterLength /\ LookupSource)

\* C15: whenever the nominal partition size of the current process count
\* is 0 the partitioner decrements the count and tries again instead of
\* failing; for a file shorter than a page the plan is one process with
\* the entry (0, 0, S).
C15_ShrinkOnZero ==
  /\ [][(pc = "setOffs" /\ procCnt > 1 /\ PartSz(Len(file), procCnt) = 0)
          => (procCnt' = procCnt - 1 /\ pc' = "setOffs")]_vars
  /\ []((PlanReturned /\ Len(file) < PageSize)
          => (procCnt = 1 /\ fileOffs[0] = 0 /\ fileOffs[1] = 0
              /\ fileOffs[2] = Len(file)))

C15_Witness ==
  /\ pc = "planned" /\ worldSz = MaxProcs /\ procCnt = 1
  /\ 0 < Len(file) /\ Len(file) < PageSize
  /\ fileOffs[2] = Len(file)

\* the per-rank outputs of ranks 0..n-1, one after the other
RECURSIVE OutputsInRankOrder(_)
OutputsInRankOrder(n) ==
  IF n = 0 THEN <<>> ELSE OutputsInRankOrder(n - 1) \o wk[n - 1].out

\* the written entries of ranks 0..n-1, rank by rank
RECURSIVE EmittedInRankOrder(_)
EmittedInRankOrder(n) ==
  IF n = 0 THEN <<>> ELSE EmittedInRankOrder(n - 1) \o Emitted(wk[n - 1])

\* C16: when the outputs of N' > 1 ranks are combined and at least one rank
\* wrote bytes, the combined file is the concatenation of the per-rank
\* outputs in ascending rank order, each once and complete; its records are
\* in the order of the source file and its size is the sum of the gathered
\* bytesWritten values.
C16_CombinedInRankOrder ==
  (pc = "finished" /\ args.combine /\ procCnt > 1 /\ TotalBytesWritten(procCnt) > 0) =>
    /\ outFile = OutputsInRankOrder(procCnt)
    /\ Len(outFile) = TotalBytesWritten(procCnt)
    /\ LET w == EmittedInRankOrder(procCnt) IN
       /\ \A k \in 1..(Len(w) - 1) : w[k].start < w[k + 1].start
       /\ outFile = PolicyOut(w)

C16_Witness ==
  /\ pc = "finished" /\ args.combine /\ procCnt > 1
  /\ \A r \in 0..(procCnt - 1) : wk[r].bytesWritten > 0
  /\ \E r \in 0..(procCnt - 1) : wk[r].bytesWritten > BCAST_LIMIT

(***************************************************************************)
(* Hit lists: loadSearchIDs and loadBlastTable with parseBlastTableIDs,    *)
(* one action per line read                                                *)
(***************************************************************************)
SP == " "
TAB == "\t"
\* HITS_ID_LEN, the size of an entry of hitList and queryList, scaled down:
\* an entry holds MaxIdLen bytes and the terminating NUL
MaxIdLen == 3
HITS_ID_LEN == MaxIdLen + 1
MaxIdBytes == 6
MaxLines == 3

\* the first n bytes of s, all of s if it is shorter
Take(s, n) == SubSeq(s, 1, Min(n, Len(s)))

\* strncmp(a, b, n) == 0 for the NUL-terminated strings a and b
strncmp0(a, b, n) == Take(Append(a, "NUL"), n) = Take(Append(b, "NUL"), n)

\* while(1) { nch++; if( *pch == '\n' || pch == fMap ) ... }: the line that
\* starts at pch, its newline included, whether it is the last one, and pch
\* after it
RECURSIVE ReadLine(_, _, _)
ReadLine(iMap, pch, nch) ==
  LET p == pch + nch - 1
      fMap == Len(iMap) - 1
  IN IF iMap[p + 1] = NL \/ p = fMap
     THEN [line |-> SubSeq(iMap, pch + 1, p + 1), done |-> p = fMap,
           pch |-> IF p = fMap THEN p ELSE p + 1]
     ELSE ReadLine(iMap, pch, nch + 1)

\* one turn of while( done == 0 ) of loadSearchIDs: hitList after the line
SearchIDLine(hl, line) ==
  IF Len(line) <= 1 THEN hl
  ELSE LET len == (IF Len(line) + 1 > HITS_ID_LEN THEN HITS_ID_LEN ELSE Len(line)) - 1
       IN IF \E j \in DOMAIN hl : strncmp0(line, hl[j], len) THEN hl
          ELSE Append(hl, Take(line, len))

\* strtok(s, " \t"): the first token of s and what follows its delimiter;
\* tok = <<>> stands for NULL
RECURSIVE strtok(_)
strtok(s) ==
  IF s = <<>> THEN [tok |-> <<>>, rest |-> <<>>]
  ELSE IF Head(s) \in {SP, TAB} THEN strtok(Tail(s))
  ELSE LET ends == {k \in DOMAIN s : s[k] \in {SP, TAB}} IN
       IF ends = {} THEN [tok |-> s, rest |-> <<>>]
       ELSE [tok |-> SubSeq(s, 1, Least(ends) - 1),
             rest |-> SubSeq(s, Least(ends) + 1, Len(s))]

\* qlen, hlen: strlen + 1, or HITS_ID_LEN - 1 for an ID that does not fit
IdLen(id) == IF Len(id) + 1 > HITS_ID_LEN THEN HITS_ID_LEN - 1 ELSE Len(id) + 1

parseBlastTableIDs(ql, hl, line) ==
  LET t1 == strtok(line)
      t2 == strtok(t1.rest)
      currQueryId == t1.tok
      currHitId == t2.tok
      qlen == IdLen(currQueryId)
      hlen == IdLen(currHitId)
      ql1 == IF ql = <<>> \/ ~strncmp0(currQueryId, ql[Len(ql)], qlen)
             THEN Append(ql, Take(currQueryId, qlen)) ELSE ql
  IN IF currQueryId = <<>> \/ currHitId = <<>>
     THEN [err |-> ERROR, queryList |-> ql, hitList |-> hl]
     ELSE IF args.pipeMode = 1
     THEN [err |-> 0, queryList |-> ql1,
           hitList |->
             IF ~strncmp0(currQueryId, currHitId, Min(qlen, hlen))
                /\ ~\E i \in DOMAIN hl : strncmp0(currHitId, hl[i], hlen)
             THEN Append(hl, Take(currHitId, hlen)) ELSE hl]
     ELSE IF args.pipeMode = 2
     THEN [err |-> ERROR, queryList |-> ql1, hitList |-> hl]
     ELSE [err |-> 0, queryList |-> ql1, hitList |-> hl]

\* the state of a loader after mmap: nothing read yet
InitLoad(bytes) == [iMap |-> bytes, pch |-> 0, done |-> FALSE, queryList |-> <<>>]

\* loadSearchIDs: one line of the ID list
ReadIDLine ==
  /\ pc = "loadSearchIDs"
  /\ ~load.done
  /\ LET r == ReadLine(load.iMap, load.pch, 1) IN
     /\ load' = [load EXCEPT !.pch = r.pch, !.done = r.done]
     /\ hitList' = SearchIDLine(hitList, r.line)
  /\ UNCHANGED <<file, args, worldSz, cmd, procCnt, fileOffs, pc, wk, notFound, outFile>>

\* loadBlastTable: one line of the table
ReadTableLine ==
  /\ pc = "loadBlastTable"
  /\ ~load.done
  /\ LET r == ReadLine(load.iMap, load.pch, 1)
         x == parseBlastTableIDs(load.queryList, hitList, r.line)
     IN
     /\ load' = [load EXCEPT !.pch = r.pch, !.done = r.done, !.queryList = x.queryList]
     /\ hitList' = IF x.err # 0 THEN <<>> ELSE x.hitList
     /\ pc' = IF x.err # 0 THEN "loadFailed" ELSE pc
  /\ UNCHANGED <<file, args, worldSz, cmd, procCnt, fileOffs, wk, notFound, outFile>>

\* the loop of the loader ends: the list is complete
LoadEnd ==
  /\ pc \in {"loadSearchIDs", "loadBlastTable"}
  /\ load.done
  /\ pc' = "loaded"
  /\ UNCHANGED <<file, args, hitList, worldSz, cmd, load, procCnt, fileOffs, wk, notFound, outFile>>

\* ID lists: all files of 1 to MaxIdBytes bytes over two letters and newline
RECURSIVE BytesUpTo(_, _)
BytesUpTo(S, n) ==
  IF n = 0 THEN {<<>>}
  ELSE LET shorter == BytesUpTo(S, n - 1) IN
       shorter \cup {Append(s, x) : s \in {q \in shorter : Len(q) = n - 1}, x \in S}

IdFiles == BytesUpTo({"a", "b", NL}, MaxIdBytes) \ {<<>>}

\* Lines of a BLAST table: two tokens and more, hit equal to the query, a
\* hit ID too long for an entry, tab and space as separators, a last line
\* without newline
CatalogLines ==
  { <<"a", TAB, "b", NL>>, <<"a", TAB, "b", TAB, "9", NL>>,
    <<"a", TAB, "a", NL>>, <<"a", SP, "a", SP, "9", NL>>,
    <<"b", TAB, "a", "b", "b", "b", "b", TAB, "9", NL>>,
    <<"b", TAB, "a", "b", "b", TAB, "9", NL>>,
    <<"a", TAB, "b">> }

TableFiles == {Flatten(ls) : ls \in SeqsUpTo(CatalogLines, MaxLines)} \ {<<>>}

InitLoader ==
  /\ file = <<>>
  /\ hitList = <<>>
  /\ worldSz = 1
  /\ cmd = <<>>
  /\ procCnt = 1
  /\ fileOffs = <<>>
  /\ wk = <<>>
  /\ notFound = <<>>
  /\ outFile = <<>>

InitLoadIDs ==
  /\ args = [DefaultArgs EXCEPT !.searchMode = 1]
  /\ load \in {InitLoad(f) : f \in IdFiles}
  /\ pc = "loadSearchIDs"
  /\ InitLoader

NextLoadIDs == ReadIDLine \/ LoadEnd

\* the loading of a plain ID list (-s)
SpecLoadIDs == InitLoadIDs /\ [][NextLoadIDs]_vars

InitLoadTable ==
  /\ args \in {[DefaultArgs EXCEPT !.pipeMode = m] : m \in {1, 2}}
  /\ load \in {InitLoad(f) : f \in TableFiles}
  /\ pc = "loadBlastTable"
  /\ InitLoader

NextLoadTable == ReadTableLine \/ LoadEnd

\* the loading of a BLAST table (-p, -t)
SpecLoadTable == InitLoadTable /\ [][NextLoadTable]_vars

(***************************************************************************)
(* Properties of the hit lists (SpecLoadTable, SpecLoadIDs)                *)
(***************************************************************************)
\* the lines of bytes without their newlines; a last line without newline
\* counts
RECURSIVE LinesOf(_)
LinesOf(bytes) ==
  IF bytes = <<>> THEN <<>>
  ELSE LET nls == {k \in DOMAIN bytes : bytes[k] = NL} IN
       IF nls = {} THEN <<bytes>>
       ELSE <<SubSeq(bytes, 1, Least(nls) - 1)>>
            \o LinesOf(SubSeq(bytes, Least(nls) + 1, Len(bytes)))

\* the whitespace-separated tokens of a line
RECURSIVE TokensOf(_)
TokensOf(line) ==
  IF line = <<>> THEN <<>>
  ELSE IF Head(line) \in {SP, TAB} THEN TokensOf(Tail(line))
  ELSE LET ws == {k \in DOMAIN line : line[k] \in {SP, TAB}} IN
       IF ws = {} THEN <<line>>
       ELSE <<SubSeq(line, 1, Least(ws) - 1)>>
            \o TokensOf(SubSeq(line, Least(ws) + 1, Len(line)))

\* ids without the entries that occurred before
RECURSIVE FirstOccurrences(_)
FirstOccurrences(ids) ==
  IF ids = <<>> THEN <<>>
  ELSE LET front == FirstOccurrences(SubSeq(ids, 1, Len(ids) - 1))
           last == ids[Len(ids)]
       IN IF \E k \in DOMAIN front : front[k] = last THEN front
          ELSE Append(front, last)

\* the hit IDs of the lines of a table, truncated, without the lines whose
\* hit ID is the query ID
TableHits(bytes) ==
  LET toks == [k \in DOMAIN LinesOf(bytes) |-> TokensOf(LinesOf(bytes)[k])]
      hitLines == SelectSeq(toks, LAMBDA tk : Len(tk) >= 2 /\ tk[1] # tk[2])
  IN [k \in DOMAIN hitLines |-> Take(hitLines[k][2], MaxIdLen)]

\* C17: the hit list built from a BLAST table is the list, in order of
\* first occurrence, of the distinct hit IDs; the hit ID of a line is its
\* second whitespace-separated token, truncated, without space, tab or line
\* terminator; a line whose hit ID equals its query ID adds nothing; also
\* for lines of exactly two tokens.
C17_TableHitList ==
  (pc = "loaded" /\ args.pipeMode = 1) =>
    hitList = FirstOccurrences(TableHits(load.iMap))

\* the non-empty lines of an ID list, truncated
ListedIDs(bytes) ==
  LET nonEmpty == SelectSeq(LinesOf(bytes), LAMBDA l : l # <<>>) IN
  [k \in DOMAIN nonEmpty |-> Take(nonEmpty[k], MaxIdLen)]

\* C18: the hit list built from a plain ID list holds, in order of first
\* occurrence, exactly the distinct non-empty lines of the file without
\* their newline, truncated: an ID is left out only if the same ID is
\* already stored, also when it is a proper prefix of an earlier ID, and
\* the last line is stored in full with or without a final newline.
C18_IDListHitList ==
  (pc = "loaded" /\ args.searchMode = 1) =>
    hitList = FirstOccurrences(ListedIDs(load.iMap))

(***************************************************************************)
(* Further properties of the partitioner (SpecPart)                        *)
(***************************************************************************)
\* the nominal partition size of the attempt setOffs is about to make
NominalSz == PartSz(Len(file), procCnt)

\* the window of partition 0, the first NominalSz bytes, holds no '>'
NoStartInFirstWindow ==
  /\ NominalSz > 0
  /\ \A k \in 1..NominalSz : k <= Len(file) => file[k] # GT

\* C21: if the nominal window of a non-last partition holds no record start
\* the partitioner ends with a hard error, neither a plan nor a smaller
\* process count; and the backward scan reads no byte before the page
\* offset of its partition.
C21_NoStartIsHardError ==
  /\ [][(pc = "setOffs" /\ procCnt > 1 /\ NoStartInFirstWindow)
          => (pc' = "failed" /\ procCnt' = ERROR)]_vars
  /\ []((pc = "setOffs" /\ procCnt > 1)
          => ~setOffsQueryFile(ZeroOffs, Len(file), procCnt).below)

\* the first record of the file spans the window of partition 0: its '>'
\* is the only one in the first NominalSz bytes
FirstRecordSpansWindow ==
  /\ NominalSz > 0
  /\ Len(file) >= NominalSz
  /\ \A k \in 1..NominalSz : (file[k] = GT) <=> (k = 1)

\* C22: every entry of a returned plan has a length of at least 1: when the
\* length of a non-last partition comes out as 0 (one record spans the
\* nominal partition) the process count is decremented and the plan is
\* computed again from cleared slots, and the length of the last partition
\* is positive.
C22_NoEmptyPartition ==
  /\ [][(pc = "setOffs" /\ procCnt > 1 /\ FirstRecordSpansWindow)
          => (procCnt' = procCnt - 1 /\ pc' = "setOffs")]_vars
  /\ [](PlanReturned =>
          /\ \A i \in 0..(procCnt - 1) : fileOffs[i*3+2] >= 1
          /\ procCnt > 1 =>
               fileOffs = setOffsQueryFile(ZeroOffs, Len(file), procCnt).offs)

\* a plan of two entries returned after the attempt with three processes
\* met a first record that spans the nominal partition
C22_Witness ==
  /\ pc = "planned" /\ worldSz = 3 /\ procCnt = 2
  /\ fileOffs[2] >= 1 /\ fileOffs[5] >= 1
  /\ file[1] = GT
  /\ PartSz(Len(file), 3) > 0
  /\ \A k \in 2..PartSz(Len(file), 3) : file[k] # GT


(***************************************************************************)
(* Irregular records (SpecEdge)                                            *)
(***************************************************************************)
\* the last '>' of the file is followed by no newline
TruncatedHeader ==
  /\ \E k \in 1..Len(file) : file[k] = GT
  /\ LET g == CHOOSE k \in 1..Len(file) :
                 file[k] = GT /\ \A j \in (k+1)..Len(file) : file[j] # GT
     IN \A j \in g..Len(file) : file[j] # NL

\* C23: when the header of the last record of the partition has no
\* terminating newline, the run of the worker ends with the runtime error
\* and not with success.
C23_TruncatedHeaderIsError ==
  (pc = "finished" /\ TruncatedHeader) => wk[0].ret = ERROR


\* C27: the sequence length getSequence computes for a record is the number
\* of bytes of its body that are not newlines, wherever the record lies:
\* before another record, at the end of a window or of the carry buffer, at
\* the end of the file with or without a final newline.
C27_SeqSzIsLogicalLen ==
  \A k \in DOMAIN wk[0].log :
     wk[0].log[k].err = 0 =>
       wk[0].log[k].seqSz = LogicalLen(RecordAt(file, wk[0].log[k].start))


\* rec is a header line and nothing else
EmptyBodied(rec) ==
  /\ Len(rec) >= 1 /\ rec[Len(rec)] = NL
  /\ \A j \in 1..(Len(rec) - 1) : rec[j] # NL

\* the entries of the log of rank 0 made by the same call of extractQueries
\* as entry k, after it
LaterInRegion(k) ==
  {j \in DOMAIN wk[0].log :
     /\ j > k
     /\ wk[0].log[j].nmap = wk[0].log[k].nmap
     /\ wk[0].log[j].reg = wk[0].log[k].reg}

\* the step appends an entry of a failed getSequence to the log of rank 0
EmptyBodyStep ==
  /\ Len(wk'[0].log) = Len(wk[0].log) + 1
  /\ wk'[0].log[Len(wk'[0].log)].err # 0

\* C29: a record with an empty body is not written and ends the processing
\* of its window or carry buffer: no record is examined after it there; the
\* selector still returns success: the step sets no error, after a window
\* the loop goes on to the next map, after a carry buffer to the window; a
\* run without map or adjust failure maps every window and returns 0.
C29_EmptyBodyEndsRegion ==
  /\ [](\A k \in DOMAIN wk[0].log :
          EmptyBodied(RecordAt(file, wk[0].log[k].start)) =>
            /\ wk[0].log[k].err = ERROR /\ ~wk[0].log[k].wr
            /\ LaterInRegion(k) = {})
  /\ [][EmptyBodyStep =>
          /\ wk[0].pc = "winExtract" =>
                /\ wk'[0].pc = "map" /\ wk'[0].nmap = wk[0].nmap + 1
                /\ wk'[0].err = 0 /\ wk'[0].out = wk[0].out
          /\ wk[0].pc = "bufExtract" => wk'[0].region = "map"]_vars
  /\ []((pc = "finished" /\ wk[0].err = 0) =>
          (wk[0].ret = 0 /\ wk[0].nmap = wk[0].nmaps))

\* an empty record ended the first window before the record after it was
\* examined; the second window was scanned and a record of it written
C29_Witness ==
  /\ pc = "finished" /\ wk[0].ret = 0
  /\ \E k \in DOMAIN wk[0].log :
        /\ EmptyBodied(RecordAt(file, wk[0].log[k].start))
        /\ wk[0].log[k].nmap = 0 /\ wk[0].log[k].err = ERROR
        /\ \E q \in RecStarts(file) :
              /\ q > wk[0].log[k].start /\ q < Len(file) - PageSize * MapPages
              /\ \A j \in DOMAIN wk[0].log : wk[0].log[j].start # q
        /\ \E j \in DOMAIN wk[0].log : wk[0].log[j].nmap = 1 /\ wk[0].log[j].wr

(***************************************************************************)
(* Errors of the scan loop and the exit code                               *)
(***************************************************************************)
\* C24: a rank whose initQueryMap, adjustMapBegin or adjustMapEnd failed
\* maps no further window, and its run ends with the runtime error: the
\* value partQueryFile returns is the error of the loop, whatever the
\* post-scan steps return.
C24_ScanErrorIsReturned ==
  /\ [][\A r \in Ranks :
          wk[r].err = ERROR =>
            (wk'[r].nmap = wk[r].nmap /\ wk'[r].pc \in {"post", "end"})]_vars
  /\ [](pc = "finished" =>
          \A r \in 0..(procCnt - 1) : wk[r].err = ERROR => wk[r].ret = ERROR)

(***************************************************************************)
(* The record quota in lookup mode (SpecLookup)                            *)
(***************************************************************************)
\* the start of the last record rank 0 has examined
LastExamined == wk[0].log[Len(wk[0].log)].start

C26_ShrinkExcludesRanks ==
  /\ []((pc \in {"scan", "finished"} /\ procCnt < worldSz) =>
          /\ procCnt >= 1
          /\ \A r \in Ranks :
                IF r < procCnt
                THEN /\ wk[r].pc # "exited"
                     /\ wk[r].qfsz = fileOffs[r*3+2]
                     /\ pc = "finished" => wk[r].pc = "end"
                ELSE /\ wk[r].pc = "exited" /\ wk[r].ret = 0
                     /\ wk[r].out = <<>> /\ wk[r].log = <<>> /\ wk[r].nmaps = 0
          /\ procCnt > 1 =>
                fileOffs = setOffsQueryFile(ZeroOffs, Len(file), procCnt).offs
          /\ procCnt = 1 => fileOffs[0] = 0 /\ fileOffs[1] = 0 /\ fileOffs[2] = Len(file)
          /\ pc = "finished" =>
                /\ procCnt = 1 => outFile = wk[0].out
                /\ TotalBytesWritten(procCnt) = TotalBytesWritten(worldSz))
  /\ [][\A r \in Ranks : wk[r].pc = "exited" => wk'[r] = wk[r]]_vars

\* a run that was started with three ranks and scanned with two has ended,
\* both ranks have written records
C26_Witness ==
  /\ pc = "finished" /\ worldSz = 3 /\ procCnt = 2
  /\ wk[2].pc = "exited" /\ wk[0].pc = "end" /\ wk[1].pc = "end"
  /\ wk[0].out # <<>> /\ wk[1].out # <<>>

(***************************************************************************)
(* A rank that fails alone (SpecFault)                                     *)
(***************************************************************************)
\* C25: when a rank has left after a local error, the other ranks still run
\* to completion: a rank that has ended its scan and waits in the
\* collectives after the scan is never blocked for good, some step of the
\* run is always possible until it has got through them (unless a rank has
\* crashed).
C25_NoPeerBlocked ==
  (/\ pc = "scan"
   /\ \E r \in Ranks : wk[r].pc = "post"
   /\ \A q \in Ranks : wk[q].pc # "crashed")
    => ENABLED NextFault

(***************************************************************************)
(* Termination of the partitioner (SpecPartFair)                           *)
(***************************************************************************)
\* C30: setOffs always comes to an end with a plan for a count of at least
\* 1: every turn of its loop either returns a plan for the current count or
\* decreases the count by one to a count that is still at least 1; at count
\* 1 the plan is (0, 0, S); it never ends with a hard error. The copy of the
\* loop in computePartitionOffsets, called for 4 parts, ends the same way.
C30_PartitionerTerminates ==
  /\ <>PlanReturned
  /\ [](pc # "failed")
  /\ [][pc = "setOffs" =>
          \/ pc' = "setOffs" /\ procCnt' = procCnt - 1 /\ procCnt' >= 1
          \/ PlanReturned' /\ procCnt' = procCnt]_vars
  /\ [](PlanReturned =>
          /\ procCnt >= 1 /\ procCnt <= worldSz
          /\ procCnt = 1 =>
                fileOffs[0] = 0 /\ fileOffs[1] = 0 /\ fileOffs[2] = Len(file))
  /\ [](LET c == computePartitionOffsets(DebugParts) IN
          /\ c.parts >= 1 /\ c.parts <= DebugParts
          /\ c.offs[0] = 0 /\ c.offs[1] = 0
          /\ c.parts = 1 => c.offs[2] = Len(file)
          /\ (c.parts > 1 /\ c.parts <= worldSz) =>
                \A k \in 0..(c.parts * 3 - 1) :
                   c.offs[k] = setOffsQueryFile(ZeroOffs, Len(file), c.parts).offs[k])

\* a plan for one process, returned after the count was decreased twice
C30_Witness == PlanReturned /\ worldSz = 3 /\ procCnt = 1 /\ fileOffs[2] = Len(file)

====
